---- MODULE Spec2Model ----
(***************************************************************************)
(* Model of the file manager of globalApi:                                 *)
(*   app/server_manager/file_manager/utils.py    (resolve_safe_path,       *)
(*                                                generate_zip_from_folder)*)
(*   app/server_manager/file_manager/service.py  (the file operations)     *)
(*   app/server_manager/file_manager/allowed_root_crud.py (root registry)  *)
(*   app/server_manager/file_manager/allowed_roots_router.py (its routes)  *)
(*   app/server_manager/systemd/systemd.py       (unit files and rows)     *)
(*   app/Server_Manager/hardware_ws.py           (metric broadcast)        *)
(*                                                                         *)
(* A path is a sequence of segments below "/"; <<>> is "/" itself.  The    *)
(* filesystem is a function from the existing paths to their nodes.        *)
(***************************************************************************)
EXTENDS Integers, Sequences, FiniteSets, TLC

VARIABLES
    fs,             \* the host filesystem: existing path -> node
    allowed_roots,  \* rows of the allowed_roots table, in id order
    ALLOWED_ROOTS,  \* the root list service.py imports from utils
    call,           \* the last file-manager call and its outcome
    prev,           \* the filesystem as it was before the last call
    nops,           \* number of calls made so far
    gen,            \* the generate_zip_from_folder generator and the temp dir
    pcs,            \* the calls in progress of two concurrent requests
    hist,           \* the calls of a session, oldest first
    svc,            \* the unit directory and the systemd_services table
    ws              \* hardware_ws: clients[metric], its handlers and its loop

vars == <<fs, allowed_roots, ALLOWED_ROOTS, call, prev, nops, gen, pcs,
          hist, svc, ws>>

-----------------------------------------------------------------------------
(* Bounds *)

MaxOps == 1        \* number of file-manager calls in a run
MaxFollow == 3     \* symlinks followed in one lookup before ELOOP
MaxChunks == 2     \* 64 KiB chunks an archive is read in
MaxRuns == 2       \* number of archive exports in a run
MaxDepth == 6      \* directory levels a copy descends

-----------------------------------------------------------------------------
(* Paths and strings *)

\* the characters of a segment, for the string operations of the code
Chars(n) ==
    CASE n = "ab" -> <<"a", "b">>
      [] n = ".." -> <<".", ".">>
      [] OTHER    -> <<n>>

RECURSIVE StrOf(_)
\* str(Path): "/" for the root, otherwise "/seg" for each segment
StrOf(p) == IF p = <<>> THEN <<>> ELSE <<"/">> \o Chars(Head(p)) \o StrOf(Tail(p))

PathStr(p) == IF p = <<>> THEN <<"/">> ELSE StrOf(p)

\* str.startswith
startswith(s, pre) == Len(pre) <= Len(s) /\ SubSeq(s, 1, Len(pre)) = pre

\* PurePath.relative_to succeeds (segment-wise prefix)
IsUnder(p, root) == Len(root) <= Len(p) /\ SubSeq(p, 1, Len(root)) = root

\* PurePath.relative_to: the segments below root
relative_to(p, root) == SubSeq(p, Len(root) + 1, Len(p))

Parent(p) == IF p = <<>> THEN <<>> ELSE SubSeq(p, 1, Len(p) - 1)

Last(p) == p[Len(p)]

\* Path(s): pathlib drops "." segments and keeps ".." segments
RECURSIVE DropDots(_)
DropDots(segs) ==
    IF segs = <<>> THEN <<>>
    ELSE IF Head(segs) = "." THEN DropDots(Tail(segs))
    ELSE <<Head(segs)>> \o DropDots(Tail(segs))

RECURSIVE NormAcc(_, _)
NormAcc(acc, rest) ==
    IF rest = <<>> THEN acc
    ELSE LET s == Head(rest) IN
         NormAcc(IF s = "." THEN acc
                 ELSE IF s = ".." THEN Parent(acc)
                 ELSE Append(acc, s), Tail(rest))

\* os.path.normpath of an absolute path: lexical, no filesystem access
normpath(segs) == NormAcc(<<>>, segs)

\* base / other  (an absolute right operand replaces the left one)
JoinPath(base, other) == IF other.abs THEN DropDots(other.segs)
                         ELSE base \o DropDots(other.segs)

-----------------------------------------------------------------------------
(* Filesystem nodes and lookups *)

Dir == [kind |-> "dir", target |-> <<>>, content |-> 0]
File(c) == [kind |-> "file", target |-> <<>>, content |-> c]
Link(t) == [kind |-> "link", target |-> t, content |-> 0]

RECURSIVE Walk(_, _, _, _, _)
\* Path lookup from the real directory cur over the segments rest.
\*   mode "real"  : Path.resolve(strict=False): missing components are kept
\*   mode "stat"  : the kernel's lookup, following a final symlink
\*   mode "lstat" : the kernel's lookup, not following a final symlink;
\*                  a missing final component is reported with st = "ok"
\*   mode "create": as "lstat" but following a final symlink
Walk(f, cur, rest, mode, fuel) ==
    IF rest = <<>> THEN [st |-> "ok", p |-> cur]
    ELSE IF fuel = 0 THEN [st |-> "eloop", p |-> cur]
    ELSE
      LET s == Head(rest)
          t == Tail(rest)
          n == Append(cur, s)
      IN  IF s = "." THEN Walk(f, cur, t, mode, fuel)
          ELSE IF s = ".." THEN Walk(f, Parent(cur), t, mode, fuel)
          ELSE IF n \in DOMAIN f THEN
              IF f[n].kind = "link" THEN
                  IF t = <<>> /\ mode = "lstat" THEN [st |-> "ok", p |-> n]
                  ELSE Walk(f, <<>>, f[n].target \o t, mode, fuel - 1)
              ELSE IF f[n].kind = "file" /\ t # <<>> THEN
                  IF mode = "real" THEN Walk(f, n, t, mode, fuel)
                  ELSE [st |-> "enotdir", p |-> n]
              ELSE Walk(f, n, t, mode, fuel)
          ELSE IF mode = "real" THEN Walk(f, n, t, mode, fuel)
          ELSE IF t = <<>> /\ mode \in {"lstat", "create"} THEN [st |-> "ok", p |-> n]
          ELSE [st |-> "enoent", p |-> n]

\* Path.resolve(strict=False); st = "eloop" is the RuntimeError of a symlink loop
Resolve(f, p) == Walk(f, <<>>, p, "real", MaxFollow)

Stat(f, p) == Walk(f, <<>>, p, "stat", MaxFollow)

\* Path.exists(), Path.is_dir(), Path.is_file(): False on any lookup error
Exists(f, p) == Stat(f, p).st = "ok"
IsDir(f, p) == LET w == Stat(f, p) IN w.st = "ok" /\ f[w.p].kind = "dir"
IsFile(f, p) == LET w == Stat(f, p) IN w.st = "ok" /\ f[w.p].kind = "file"

\* the paths of the subtree at p
Subtree(f, p) == {q \in DOMAIN f : IsUnder(q, p)}

-----------------------------------------------------------------------------
(* Root registry: allowed_root_crud.py *)

\* get_all_allowed_roots: SELECT * FROM allowed_roots, no WHERE clause
get_all_allowed_roots(table) == table

\* get_allowed_roots_as_paths: [Path(rec["path"]).resolve() for rec in records]
get_allowed_roots_as_paths(f, table) ==
    LET records == get_all_allowed_roots(table)
    IN  [i \in 1..Len(records) |-> Resolve(f, records[i].path)]

-----------------------------------------------------------------------------
(* PathResolver: utils.resolve_safe_path *)

\* outcomes: "ok", or the HTTPException raised:
\*   "no_roots" 500, "denied" 403, "dotdot" 400 (resolve_safe_path)
\*   "not_found" 404, "not_dir" 400, "exists" 409, "only_zip" 400,
\*   "zip_traversal" 400, "unmapped" 403 (service.py)
\* and "fault": an exception that is not an HTTPException
Ok(p) == [status |-> "ok", path |-> p]
Err(s) == [status |-> s, path |-> <<>>]

\* the caller's string: absolute or not, and its segments as typed
IsEmptyStr(inp) == ~inp.abs /\ inp.segs = <<>>

RECURSIVE AbsLoop(_, _, _, _)
\* utils.py 25-38: containment of the normalized input, then resolve
AbsLoop(f, roots, i, normalized_input) ==
    IF i > Len(roots) THEN Err("denied")
    ELSE LET resolved_root == Resolve(f, roots[i]) IN
         IF resolved_root.st # "ok" THEN Err("fault")
         ELSE IF IsUnder(normalized_input, resolved_root.p) THEN
             LET r == Resolve(f, normalized_input) IN
             IF r.st = "ok" THEN Ok(r.p) ELSE Err("fault")
         ELSE AbsLoop(f, roots, i + 1, normalized_input)

RECURSIVE RelLoopStringPrefix(_, _, _, _)
\* RelLoop with containment tested on the path strings
RelLoopStringPrefix(f, roots, i, input_path) ==
    IF i > Len(roots) THEN Err("denied")
    ELSE LET candidate == roots[i] \o input_path
             resolved_candidate == Resolve(f, candidate)
             resolved_root == Resolve(f, roots[i])
         IN  IF resolved_candidate.st # "ok" \/ resolved_root.st # "ok" THEN Err("fault")
             ELSE IF startswith(PathStr(resolved_candidate.p), PathStr(resolved_root.p))
                  THEN Ok(resolved_candidate.p)
             ELSE RelLoopStringPrefix(f, roots, i + 1, input_path)

RECURSIVE RelLoopLastMatch(_, _, _, _)
\* the relative loop trying the roots from the last to the first
RelLoopLastMatch(f, roots, i, input_path) ==
    IF i > Len(roots) THEN Err("denied")
    ELSE LET j == Len(roots) + 1 - i
             candidate == roots[j] \o input_path
             resolved_candidate == Resolve(f, candidate)
             resolved_root == Resolve(f, roots[j])
         IN  IF resolved_candidate.st # "ok" \/ resolved_root.st # "ok" THEN Err("fault")
             ELSE IF IsUnder(resolved_candidate.p, resolved_root.p)
                  THEN Ok(resolved_candidate.p)
             ELSE RelLoopLastMatch(f, roots, i + 1, input_path)

RECURSIVE RelLoop(_, _, _, _)
\* utils.py 44-54: join, resolve, containment of the resolved candidate
RelLoop(f, roots, i, input_path) ==
    IF i > Len(roots) THEN Err("denied")
    ELSE LET candidate == roots[i] \o input_path
             resolved_candidate == Resolve(f, candidate)
             resolved_root == Resolve(f, roots[i])
         IN  IF resolved_candidate.st # "ok" \/ resolved_root.st # "ok" THEN Err("fault")
             ELSE IF IsUnder(resolved_candidate.p, resolved_root.p)
                  THEN Ok(resolved_candidate.p)
             ELSE RelLoop(f, roots, i + 1, input_path)

\* resolve_safe_path with the ".." rejection placed before the absolute branch
resolve_safe_path_dotdot_first(f, table, subpath) ==
    LET got == get_allowed_roots_as_paths(f, table)
        roots == [i \in 1..Len(got) |-> got[i].p]
        input_path == DropDots(subpath.segs)
    IN  IF \E i \in 1..Len(got) : got[i].st # "ok" THEN Err("fault")
        ELSE IF Len(roots) = 0 THEN Err("no_roots")
        ELSE IF IsEmptyStr(subpath) THEN Ok(roots[1])
        ELSE IF \E k \in 1..Len(input_path) : input_path[k] = ".." THEN Err("dotdot")
        ELSE IF subpath.abs THEN AbsLoop(f, roots, 1, normpath(input_path))
        ELSE RelLoop(f, roots, 1, input_path)

\* resolve_safe_path with the absolute branch testing the input as sent,
\* without os.path.normpath
resolve_safe_path_no_normpath(f, table, subpath) ==
    LET got == get_allowed_roots_as_paths(f, table)
        roots == [i \in 1..Len(got) |-> got[i].p]
        input_path == DropDots(subpath.segs)
    IN  IF \E i \in 1..Len(got) : got[i].st # "ok" THEN Err("fault")
        ELSE IF Len(roots) = 0 THEN Err("no_roots")
        ELSE IF IsEmptyStr(subpath) THEN Ok(roots[1])
        ELSE IF subpath.abs THEN AbsLoop(f, roots, 1, input_path)
        ELSE IF \E k \in 1..Len(input_path) : input_path[k] = ".." THEN Err("dotdot")
        ELSE RelLoop(f, roots, 1, input_path)

\* resolve_safe_path without the test for an empty root list
resolve_safe_path_no_config_check(f, table, subpath) ==
    LET got == get_allowed_roots_as_paths(f, table)
        roots == [i \in 1..Len(got) |-> got[i].p]
        input_path == DropDots(subpath.segs)
    IN  IF \E i \in 1..Len(got) : got[i].st # "ok" THEN Err("fault")
        ELSE IF IsEmptyStr(subpath)
             THEN (IF Len(roots) = 0 THEN Err("fault") ELSE Ok(roots[1]))
        ELSE IF subpath.abs THEN AbsLoop(f, roots, 1, normpath(input_path))
        ELSE IF \E k \in 1..Len(input_path) : input_path[k] = ".." THEN Err("dotdot")
        ELSE RelLoop(f, roots, 1, input_path)

\* resolve_safe_path answering the empty input with the last root
resolve_safe_path_last_root(f, table, subpath) ==
    LET got == get_allowed_roots_as_paths(f, table)
        roots == [i \in 1..Len(got) |-> got[i].p]
        input_path == DropDots(subpath.segs)
    IN  IF \E i \in 1..Len(got) : got[i].st # "ok" THEN Err("fault")
        ELSE IF Len(roots) = 0 THEN Err("no_roots")
        ELSE IF IsEmptyStr(subpath) THEN Ok(roots[Len(roots)])
        ELSE IF subpath.abs THEN AbsLoop(f, roots, 1, normpath(input_path))
        ELSE IF \E k \in 1..Len(input_path) : input_path[k] = ".." THEN Err("dotdot")
        ELSE RelLoop(f, roots, 1, input_path)

resolve_safe_path(f, table, subpath) ==
    LET got == get_allowed_roots_as_paths(f, table)
        roots == [i \in 1..Len(got) |-> got[i].p]
        input_path == DropDots(subpath.segs)
    IN  IF \E i \in 1..Len(got) : got[i].st # "ok" THEN Err("fault")
        ELSE IF Len(roots) = 0 THEN Err("no_roots")
        ELSE IF IsEmptyStr(subpath) THEN Ok(roots[1])
        ELSE IF subpath.abs THEN AbsLoop(f, roots, 1, normpath(input_path))
        ELSE IF \E k \in 1..Len(input_path) : input_path[k] = ".." THEN Err("dotdot")
        ELSE RelLoop(f, roots, 1, input_path)

-----------------------------------------------------------------------------
(* VirtualPathMapper: service._get_current_root, _get_virtual_path *)

RECURSIVE CurrentRootLoop(_, _, _)
CurrentRootLoop(roots, i, full_path) ==
    IF i > Len(roots) THEN Err("unmapped")
    ELSE IF IsUnder(full_path, roots[i]) THEN Ok(roots[i])
    ELSE CurrentRootLoop(roots, i + 1, full_path)

_get_current_root(roots, full_path) == CurrentRootLoop(roots, 1, full_path)

\* the segments of str(full_path.relative_to(current_root))
_get_virtual_path(roots, full_path) ==
    LET current_root == _get_current_root(roots, full_path)
    IN  IF current_root.status # "ok" THEN current_root
        ELSE Ok(relative_to(full_path, current_root.path))

\* the string a caller receives: Path("") prints as "."
VirtualStr(rel) == [abs |-> FALSE, segs |-> IF rel = <<>> THEN <<".">> ELSE rel]

-----------------------------------------------------------------------------
(* Filesystem mutations used by the operations *)

\* outcome of an operation: the filesystem it leaves, its result, the
\* resolver's answer r for its (first) path, the location it changed, and
\* the entries it lists
Res(f, status, ret, r, dest) ==
    [fs |-> f, status |-> status, ret |-> ret,
     rstatus |-> r.status, full |-> r.path, dest |-> dest, items |-> <<>>]

\* the outcome of an operation that ends by returning _get_virtual_path(p)
Returning(f, roots, p, r, dest) ==
    LET v == _get_virtual_path(roots, p)
    IN  Res(f, v.status, v.path, r, dest)

Ancestors(p) == {SubSeq(p, 1, k) : k \in 0..Len(p)}

\* os.makedirs / Path.mkdir(parents=True) can create p
CanMkdirs(f, p) ==
    /\ p \notin DOMAIN f
    /\ \A q \in Ancestors(p) : q \in DOMAIN f => f[q].kind = "dir"

Mkdirs(f, p) ==
    [q \in DOMAIN f \cup Ancestors(p) |-> IF q \in DOMAIN f THEN f[q] ELSE Dir]

Remove(f, p) == [q \in DOMAIN f \ Subtree(f, p) |-> f[q]]

\* os.rename(src, dst) of an existing src onto a free location dst
MoveTree(f, src, dst) ==
    LET moved == {dst \o relative_to(q, src) : q \in Subtree(f, src)}
        kept == (DOMAIN f \ Subtree(f, src)) \ {dst}
    IN  [q \in kept \cup moved |->
            IF q \in moved THEN f[src \o relative_to(q, dst)] ELSE f[q]]

\* write a regular file at location p
WriteFile(f, p, c) == [q \in DOMAIN f \cup {p} |-> IF q = p THEN File(c) ELSE f[q]]

-----------------------------------------------------------------------------
(* FileOperations: service.py *)

\* the names of the entries of directory p, as iterdir yields them
Names(f, p) == {Last(q) : q \in {c \in DOMAIN f : c # <<>> /\ Parent(c) = p}}

\* str.lower of a name
lower(n) == IF n = "D" THEN "d" ELSE n

\* the order of the (lower-case) names as strings
NameOrder == <<"a", "ab", "d", "e", "f", "l", "x", "y">>
NameRank(n) == CHOOSE k \in 1..Len(NameOrder) : NameOrder[k] = n

\* service.py 36-53: the entry of one child of full_path
ItemEntry(f, current_root, full_path, name) ==
    LET item == Append(full_path, name)
        is_dir == IsDir(f, item)
        stat == Stat(f, item)
        rel_path == IF IsUnder(item, current_root) THEN relative_to(item, current_root)
                    ELSE <<name>>
    IN  [name |-> name, path |-> rel_path,
         type |-> IF is_dir THEN "folder" ELSE "file",
         size |-> IF is_dir \/ stat.st # "ok" THEN <<>> ELSE <<f[stat.p].content>>]

\* the sort key of service.py 56: (type != "folder", name.lower())
KeyLeq(x, y) ==
    \/ x.type = "folder" /\ y.type # "folder"
    \/ x.type = y.type /\ NameRank(lower(x.name)) <= NameRank(lower(y.name))

RECURSIVE Sorted(_)
\* sorted(items, key=...) of entries with different keys
Sorted(items) ==
    IF items = {} THEN <<>>
    ELSE LET first == CHOOSE x \in items : \A y \in items : KeyLeq(x, y)
         IN  <<first>> \o Sorted(items \ {first})

list_items(f, table, roots, path) ==
    LET r == resolve_safe_path(f, table, path)
        full_path == r.path
        current_root == _get_current_root(roots, full_path)
        names == Names(f, full_path)
    IN  IF r.status # "ok" THEN Res(f, r.status, <<>>, r, <<>>)
        ELSE IF ~Exists(f, full_path) THEN Res(f, "not_found", <<>>, r, <<>>)
        ELSE IF ~IsDir(f, full_path) THEN Res(f, "not_dir", <<>>, r, <<>>)
        ELSE IF current_root.status # "ok" THEN Res(f, current_root.status, <<>>, r, <<>>)
        ELSE IF \E n \in names : Stat(f, Append(full_path, n)).st # "ok"
             THEN Res(f, "fault", <<>>, r, <<>>)
        ELSE [Res(f, "ok", <<>>, r, <<>>) EXCEPT
                 !.items = Sorted({ItemEntry(f, current_root.path, full_path, n) : n \in names})]

create_folder(f, table, roots, path) ==
    LET r == resolve_safe_path(f, table, path)
        full_path == r.path
    IN  IF r.status # "ok" THEN Res(f, r.status, <<>>, r, <<>>)
        ELSE IF Exists(f, full_path) THEN Res(f, "exists", <<>>, r, <<>>)
        ELSE IF ~CanMkdirs(f, full_path) THEN Res(f, "fault", <<>>, r, <<>>)
        ELSE Returning(Mkdirs(f, full_path), roots, full_path, r, full_path)

rename_item(f, table, roots, path, new_name) ==
    LET r == resolve_safe_path(f, table, path)
        old_path == r.path
        new_path == JoinPath(Parent(old_path), new_name)
        w == Walk(f, <<>>, new_path, "lstat", MaxFollow)
    IN  IF r.status # "ok" THEN Res(f, r.status, <<>>, r, <<>>)
        ELSE IF ~Exists(f, old_path) THEN Res(f, "not_found", <<>>, r, <<>>)
        ELSE IF Exists(f, new_path) THEN Res(f, "exists", <<>>, r, <<>>)
        ELSE IF \/ w.st # "ok"
                \/ IsUnder(w.p, old_path)
                \/ (w.p \in DOMAIN f /\ f[old_path].kind = "dir")
             THEN Res(f, "fault", <<>>, r, <<>>)
        ELSE Returning(MoveTree(f, old_path, w.p), roots, new_path, r, w.p)

\* delete_item refusing to remove a registered root
delete_item_keep_roots(f, table, path) ==
    LET r == resolve_safe_path(f, table, path)
        full_path == r.path
    IN  IF r.status # "ok" THEN Res(f, r.status, <<>>, r, <<>>)
        ELSE IF ~Exists(f, full_path) THEN Res(f, "not_found", <<>>, r, <<>>)
        ELSE IF \E i \in 1..Len(table) : Resolve(f, table[i].path).p = full_path
             THEN Res(f, "denied", <<>>, r, <<>>)
        ELSE Res(Remove(f, full_path), "ok", <<>>, r, full_path)

delete_item(f, table, path) ==
    LET r == resolve_safe_path(f, table, path)
        full_path == r.path
    IN  IF r.status # "ok" THEN Res(f, r.status, <<>>, r, <<>>)
        ELSE IF ~Exists(f, full_path) THEN Res(f, "not_found", <<>>, r, <<>>)
        ELSE Res(Remove(f, full_path), "ok", <<>>, r, full_path)

upload_file(f, table, roots, path, filename, content) ==
    LET r == resolve_safe_path(f, table, path)
        dir_path == r.path
        file_path == JoinPath(dir_path, filename)
        w == Walk(f, <<>>, file_path, "create", MaxFollow)
    IN  IF r.status # "ok" THEN Res(f, r.status, <<>>, r, <<>>)
        ELSE IF ~IsDir(f, dir_path) THEN Res(f, "not_dir", <<>>, r, <<>>)
        ELSE IF Exists(f, file_path) THEN Res(f, "exists", <<>>, r, <<>>)
        ELSE IF w.st # "ok" \/ w.p \in DOMAIN f THEN Res(f, "fault", <<>>, r, <<>>)
        ELSE Returning(WriteFile(f, w.p, content), roots, file_path, r, w.p)

download_file_path(f, table, path) ==
    LET r == resolve_safe_path(f, table, path)
    IN  IF r.status # "ok" THEN Res(f, r.status, <<>>, r, <<>>)
        ELSE IF ~IsFile(f, r.path) THEN Res(f, "not_found", <<>>, r, <<>>)
        ELSE Res(f, "ok", r.path, r, <<>>)

-----------------------------------------------------------------------------
(* ArchiveCodec, import: service.upload_and_extract_zip *)

\* the destination of a member as the check computes it:
\* (extract_to / member.filename).resolve()
MemberPath(f, extract_to, member) == Resolve(f, JoinPath(extract_to, member))

RECURSIVE ZipCheck(_, _, _, _)
\* service.py 126-129: the loop over zf.infolist()
ZipCheck(f, extract_to, members, i) ==
    IF i > Len(members) THEN "ok"
    ELSE LET member_path == MemberPath(f, extract_to, members[i])
             base == Resolve(f, extract_to)
         IN  IF member_path.st # "ok" \/ base.st # "ok" THEN "fault"
             ELSE IF ~startswith(PathStr(member_path.p), PathStr(base.p))
                  THEN "zip_traversal"
             ELSE ZipCheck(f, extract_to, members, i + 1)

\* ZipFile._extract_member drops the root, "" , "." and ".." from the name
RECURSIVE Sanitize(_)
Sanitize(segs) ==
    IF segs = <<>> THEN <<>>
    ELSE IF Head(segs) \in {".", ".."} THEN Sanitize(Tail(segs))
    ELSE <<Head(segs)>> \o Sanitize(Tail(segs))

\* ZipFile._extract_member for a file member
ExtractMember(f, extract_to, member) ==
    LET targetpath == extract_to \o Sanitize(member.segs)
        upperdirs == Parent(targetpath)
        f1 == IF Exists(f, upperdirs) THEN f ELSE Mkdirs(f, upperdirs)
        w == Walk(f1, <<>>, targetpath, "create", MaxFollow)
    IN  IF ~Exists(f, upperdirs) /\ ~CanMkdirs(f, upperdirs) THEN [fs |-> f, st |-> "fault"]
        ELSE IF w.st # "ok" \/ (w.p \in DOMAIN f1 /\ f1[w.p].kind # "file")
             THEN [fs |-> f1, st |-> "fault"]
        ELSE [fs |-> WriteFile(f1, w.p, member.content), st |-> "ok"]

RECURSIVE ExtractAll(_, _, _, _)
\* ZipFile.extractall: the members in archive order
ExtractAll(f, extract_to, members, i) ==
    IF i > Len(members) THEN [fs |-> f, st |-> "ok"]
    ELSE LET e == ExtractMember(f, extract_to, members[i])
         IN  IF e.st # "ok" THEN e
             ELSE ExtractAll(e.fs, extract_to, members, i + 1)

RECURSIVE CheckAndExtract(_, _, _, _)
\* each member is extracted as soon as it has passed the check
CheckAndExtract(f, extract_to, members, i) ==
    IF i > Len(members) THEN [fs |-> f, st |-> "ok"]
    ELSE LET chk == ZipCheck(f, extract_to, <<members[i]>>, 1)
             e == ExtractMember(f, extract_to, members[i])
         IN  IF chk # "ok" THEN [fs |-> f, st |-> chk]
             ELSE IF e.st # "ok" THEN e
             ELSE CheckAndExtract(e.fs, extract_to, members, i + 1)

\* upload_and_extract_zip with check and extraction in one loop
upload_and_extract_zip_one_loop(f, table, roots, path, zip_content, zip_filename) ==
    LET r == resolve_safe_path(f, table, path)
        dir_path == r.path
        extract_to == dir_path \o <<zip_filename.stem>>
        x == CheckAndExtract(f, extract_to, zip_content, 1)
    IN  IF ~zip_filename.zip THEN Res(f, "only_zip", <<>>, Err("none"), <<>>)
        ELSE IF r.status # "ok" THEN Res(f, r.status, <<>>, r, <<>>)
        ELSE IF ~IsDir(f, dir_path) THEN Res(f, "not_dir", <<>>, r, <<>>)
        ELSE IF Exists(f, extract_to) THEN Res(f, "exists", <<>>, r, <<>>)
        ELSE IF x.st # "ok" THEN Res(x.fs, x.st, <<>>, r, extract_to)
        ELSE Returning(x.fs, roots, extract_to, r, extract_to)

\* zip_filename is given by whether it ends in ".zip" and by Path(..).stem
upload_and_extract_zip(f, table, roots, path, zip_content, zip_filename) ==
    LET r == resolve_safe_path(f, table, path)
        dir_path == r.path
        extract_to == dir_path \o <<zip_filename.stem>>
        chk == ZipCheck(f, extract_to, zip_content, 1)
        x == ExtractAll(f, extract_to, zip_content, 1)
    IN  IF ~zip_filename.zip THEN Res(f, "only_zip", <<>>, Err("none"), <<>>)
        ELSE IF r.status # "ok" THEN Res(f, r.status, <<>>, r, <<>>)
        ELSE IF ~IsDir(f, dir_path) THEN Res(f, "not_dir", <<>>, r, <<>>)
        ELSE IF Exists(f, extract_to) THEN Res(f, "exists", <<>>, r, <<>>)
        ELSE IF chk # "ok" THEN Res(f, chk, <<>>, r, <<>>)
        ELSE IF x.st # "ok" THEN Res(x.fs, "fault", <<>>, r, extract_to)
        ELSE Returning(x.fs, roots, extract_to, r, extract_to)

-----------------------------------------------------------------------------
(* copy_item and move_item *)

Children(f, p) == {q \in DOMAIN f : Len(q) = Len(p) + 1 /\ IsUnder(q, p)}

RECURSIVE CopyNode(_, _, _, _, _, _)
RECURSIVE CopyEntries(_, _, _, _, _, _, _)
\* shutil.copy2 of a file / shutil.copytree(symlinks=False) of a directory:
\* src is a real path of f, the copy is built in acc at dst; a directory
\* that contains the top destination is listed again with the copy in it and
\* the recursion ends in an exception, as does a dangling link
CopyNode(f, acc, src, dst, top, fuel) ==
    IF f[src].kind = "file" THEN
        LET w == Walk(acc, <<>>, dst, "create", MaxFollow)
        IN  IF w.st # "ok" \/ (w.p \in DOMAIN acc /\ acc[w.p].kind # "file")
            THEN [fs |-> acc, st |-> "fault"]
            ELSE [fs |-> WriteFile(acc, w.p, f[src].content), st |-> "ok"]
    ELSE IF fuel = 0 \/ IsUnder(top, src) \/ ~CanMkdirs(acc, dst)
         THEN [fs |-> acc, st |-> "fault"]
    ELSE CopyEntries(f, Mkdirs(acc, dst), src, dst, top, fuel, Children(f, src))

CopyEntries(f, acc, src, dst, top, fuel, entries) ==
    IF entries = {} THEN [fs |-> acc, st |-> "ok"]
    ELSE LET e == CHOOSE q \in entries : TRUE
             w == Stat(f, e)
             one == IF w.st # "ok" THEN [fs |-> acc, st |-> "fault"]
                    ELSE CopyNode(f, acc, w.p, dst \o <<Last(e)>>, top, fuel - 1)
             rest == CopyEntries(f, one.fs, src, dst, top, fuel, entries \ {e})
         IN  [fs |-> rest.fs,
              st |-> IF one.st = "ok" THEN rest.st ELSE "fault"]

copy_item(f, table, roots, src_path, dest_path) ==
    LET r == resolve_safe_path(f, table, src_path)
        r2 == resolve_safe_path(f, table, dest_path)
        src == r.path
        dst_dir == r2.path
        dst == dst_dir \o <<Last(src)>>
        c == CopyNode(f, f, src, dst, dst, MaxDepth)
    IN  IF r.status # "ok" THEN Res(f, r.status, <<>>, r, <<>>)
        ELSE IF r2.status # "ok" THEN Res(f, r2.status, <<>>, r, <<>>)
        ELSE IF ~Exists(f, src) THEN Res(f, "not_found", <<>>, r, <<>>)
        ELSE IF ~IsDir(f, dst_dir) THEN Res(f, "not_dir", <<>>, r, <<>>)
        ELSE IF Exists(f, dst) THEN Res(f, "exists", <<>>, r, <<>>)
        ELSE IF c.st # "ok" THEN Res(c.fs, "fault", <<>>, r, dst)
        ELSE Returning(c.fs, roots, dst, r, dst)

\* shutil.move: os.rename, and for a directory moved into itself the
\* shutil.Error of the fallback
move_item(f, table, roots, src_path, dest_path) ==
    LET r == resolve_safe_path(f, table, src_path)
        r2 == resolve_safe_path(f, table, dest_path)
        src == r.path
        dst_dir == r2.path
        dst == dst_dir \o <<Last(src)>>
        w == Walk(f, <<>>, dst, "lstat", MaxFollow)
    IN  IF r.status # "ok" THEN Res(f, r.status, <<>>, r, <<>>)
        ELSE IF r2.status # "ok" THEN Res(f, r2.status, <<>>, r, <<>>)
        ELSE IF ~Exists(f, src) THEN Res(f, "not_found", <<>>, r, <<>>)
        ELSE IF ~IsDir(f, dst_dir) THEN Res(f, "not_dir", <<>>, r, <<>>)
        ELSE IF Exists(f, dst) THEN Res(f, "exists", <<>>, r, <<>>)
        ELSE IF \/ w.st # "ok"
                \/ IsUnder(w.p, src)
                \/ (w.p \in DOMAIN f /\ f[src].kind = "dir")
             THEN Res(f, "fault", <<>>, r, <<>>)
        ELSE Returning(MoveTree(f, src, w.p), roots, dst, r, w.p)

-----------------------------------------------------------------------------
(* ArchiveCodec, export: utils.generate_zip_from_folder *)

\* The generator object.  pc: "none" no generator, "new" created and not
\* started, "yielded" suspended at the yield of line 76, "done" finished.
\* tmpdir is the set of temporary files that exist; tmp_name = 0 when the run
\* has not created one; unlinks counts the os.unlink calls of the run.
\* archive is the archive written to the temporary file, and tree the
\* exported folder as it was when the archive was written.
NoGen == [pc |-> "none", folder |-> <<>>, tmpdir |-> {}, tmp_name |-> 0,
          unlinks |-> 0, left |-> 0, runs |-> 0, end |-> "none",
          archive |-> <<>>, tree |-> <<>>]

\* the tree at p: relative path -> node
RelTree(f, p) ==
    [q \in {relative_to(x, p) : x \in Subtree(f, p) \ {p}} |-> f[p \o q]]

\* utils.py 67-68: the entries os.walk reports in `files`: everything below
\* folder_path that is not a directory or a symlink to one
WalkFiles(f, folder_path) ==
    {q \in Subtree(f, folder_path) \ {folder_path} : ~IsDir(f, q)}

RECURSIVE SeqOf(_)
\* the members in the order they were written
SeqOf(S) ==
    IF S = {} THEN <<>>
    ELSE LET x == CHOOSE y \in S : TRUE IN <<x>> \o SeqOf(S \ {x})

\* utils.py 66-72: zf.write(full_path, arcname) for every file of the walk;
\* zf.write follows a symlink to a file
ZipOf(f, folder_path) ==
    SeqOf({[abs |-> FALSE, segs |-> relative_to(q, folder_path),
            content |-> f[Stat(f, q).p].content] : q \in WalkFiles(f, folder_path)})

\* zf.write raises for an entry whose stat fails (a dangling symlink)
ZipFails(f, folder_path) ==
    \E q \in WalkFiles(f, folder_path) : Stat(f, q).st # "ok"

\* get_folder_zip_generator without the is_dir check of service.py 144-145
get_folder_zip_generator_no_check(f, table, path) ==
    LET r == resolve_safe_path(f, table, path)
    IN  IF r.status # "ok" THEN Res(f, r.status, <<>>, r, <<>>)
        ELSE Res(f, "ok", <<Last(r.path)>>, r, <<>>)

\* service.get_folder_zip_generator: the generator is created, its body
\* does not run before the first next()
get_folder_zip_generator(f, table, path) ==
    LET r == resolve_safe_path(f, table, path)
    IN  IF r.status # "ok" THEN Res(f, r.status, <<>>, r, <<>>)
        ELSE IF ~IsDir(f, r.path) THEN Res(f, "not_found", <<>>, r, <<>>)
        ELSE Res(f, "ok", <<Last(r.path)>>, r, <<>>)

NewGen(g, folder_path) ==
    [g EXCEPT !.pc = "new", !.folder = folder_path, !.tmp_name = 0,
              !.unlinks = 0, !.left = 0, !.runs = @ + 1, !.end = "none",
              !.archive = <<>>, !.tree = <<>>]

\* utils.py 77-81: the finally clause
Finally(g, how) ==
    [g EXCEPT !.pc = "done", !.tmpdir = @ \ {g.tmp_name},
              !.unlinks = @ + 1, !.end = how]

\* utils.py 63-64: tempfile.NamedTemporaryFile(delete=False)
CreateTemp(g) ==
    LET name == g.runs
    IN  [g EXCEPT !.tmp_name = name, !.tmpdir = @ \cup {name}]

\* first next(): lines 60-76 up to the first yield.  built: the archive was
\* written without an exception; chunks: the 64 KiB reads it takes
gen_first(g, f, built, chunks) ==
    IF ~Exists(f, g.folder) \/ ~IsDir(f, g.folder)
    THEN [g EXCEPT !.pc = "done", !.end = "not_found"]
    ELSE LET t == CreateTemp(g)
         IN  IF ~built \/ ZipFails(f, g.folder) THEN Finally(t, "error")
             ELSE [t EXCEPT !.pc = "yielded", !.left = chunks - 1,
                            !.archive = ZipOf(f, g.folder),
                            !.tree = RelTree(f, g.folder)]

\* a later next(): line 75 reads again; readok: f.read did not raise
gen_resume(g, readok) ==
    IF ~readok THEN Finally(g, "error")
    ELSE IF g.left > 0 THEN [g EXCEPT !.left = @ - 1]
    ELSE Finally(g, "exhausted")

\* gen_close with the cleanup after the loop instead of in a finally clause
gen_close_no_finally(g) == [g EXCEPT !.pc = "done", !.end = "closed"]

\* close() or garbage collection of the generator: GeneratorExit is raised
\* at the yield and unwinds through the finally clause; a generator that
\* never started has no frame to unwind
gen_close(g) ==
    IF g.pc = "yielded" THEN Finally(g, "closed")
    ELSE [g EXCEPT !.pc = "done", !.end = "closed"]

-----------------------------------------------------------------------------
(* Two requests served concurrently: each handler first runs its checks   *)
(* and later makes its filesystem call, on the filesystem as it is then.   *)

Procs == {1, 2}

Checked(status, full, dst) == [status |-> status, full |-> full, dst |-> dst]

\* service.py 60-62
create_folder_checks(f, table, path) ==
    LET r == resolve_safe_path(f, table, path)
    IN  IF r.status # "ok" THEN Checked(r.status, <<>>, <<>>)
        ELSE IF Exists(f, r.path) THEN Checked("exists", r.path, <<>>)
        ELSE Checked("ok", r.path, r.path)

\* service.py 63-64: mkdir(parents=True, exist_ok=False), then the mapper
create_folder_acts(f, roots, full_path) ==
    IF ~CanMkdirs(f, full_path) THEN [fs |-> f, st |-> "fault"]
    ELSE [fs |-> Mkdirs(f, full_path), st |-> _get_virtual_path(roots, full_path).status]

\* service.py 68-75
rename_item_checks(f, table, path, new_name) ==
    LET r == resolve_safe_path(f, table, path)
        new_path == JoinPath(Parent(r.path), new_name)
    IN  IF r.status # "ok" THEN Checked(r.status, <<>>, <<>>)
        ELSE IF ~Exists(f, r.path) THEN Checked("not_found", r.path, <<>>)
        ELSE IF Exists(f, new_path) THEN Checked("exists", r.path, new_path)
        ELSE Checked("ok", r.path, new_path)

\* service.py 76-77: os.rename replaces a file or an empty directory of the
\* same kind at new_path and raises OSError otherwise
rename_item_acts(f, roots, old_path, new_path) ==
    LET o == Walk(f, <<>>, old_path, "lstat", MaxFollow)
        w == Walk(f, <<>>, new_path, "lstat", MaxFollow)
    IN  IF o.st # "ok" \/ o.p \notin DOMAIN f THEN [fs |-> f, st |-> "fault"]
        ELSE IF w.st # "ok" \/ IsUnder(w.p, o.p) THEN [fs |-> f, st |-> "fault"]
        ELSE IF /\ w.p \in DOMAIN f
                /\ (f[o.p].kind = "dir" \/ f[w.p].kind = "dir")
                /\ ~(f[o.p].kind = "dir" /\ f[w.p].kind = "dir" /\ Children(f, w.p) = {})
             THEN [fs |-> f, st |-> "fault"]
        ELSE [fs |-> MoveTree(f, o.p, w.p),
              st |-> _get_virtual_path(roots, new_path).status]

\* service.py 81-83
delete_item_checks(f, table, path) ==
    LET r == resolve_safe_path(f, table, path)
    IN  IF r.status # "ok" THEN Checked(r.status, <<>>, <<>>)
        ELSE IF ~Exists(f, r.path) THEN Checked("not_found", r.path, <<>>)
        ELSE Checked("ok", r.path, r.path)

\* service.py 84-87: unlink for a file; shutil.rmtree raises for a missing
\* path and for a symlink
delete_item_acts(f, full_path) ==
    LET w == Walk(f, <<>>, full_path, "lstat", MaxFollow)
    IN  IF w.st # "ok" \/ w.p \notin DOMAIN f THEN [fs |-> f, st |-> "fault"]
        ELSE IF IsFile(f, full_path) THEN [fs |-> Remove(f, w.p), st |-> "ok"]
        ELSE IF f[w.p].kind # "dir" THEN [fs |-> f, st |-> "fault"]
        ELSE [fs |-> Remove(f, w.p), st |-> "ok"]

\* service.py 151-161
copy_item_checks(f, table, src_path, dest_path) ==
    LET r == resolve_safe_path(f, table, src_path)
        r2 == resolve_safe_path(f, table, dest_path)
        dst == r2.path \o <<Last(r.path)>>
    IN  IF r.status # "ok" THEN Checked(r.status, <<>>, <<>>)
        ELSE IF r2.status # "ok" THEN Checked(r2.status, <<>>, <<>>)
        ELSE IF ~Exists(f, r.path) THEN Checked("not_found", r.path, <<>>)
        ELSE IF ~IsDir(f, r2.path) THEN Checked("not_dir", r.path, <<>>)
        ELSE IF Exists(f, dst) THEN Checked("exists", r.path, dst)
        ELSE Checked("ok", r.path, dst)

\* service.py 163-168: shutil.copy2 or shutil.copytree, then the mapper
copy_item_acts(f, roots, src, dst) ==
    LET w == Stat(f, src)
        c == CopyNode(f, f, w.p, dst, dst, MaxDepth)
    IN  IF w.st # "ok" \/ c.st # "ok" THEN [fs |-> f, st |-> "fault"]
        ELSE [fs |-> c.fs, st |-> _get_virtual_path(roots, dst).status]

-----------------------------------------------------------------------------
(* Inputs *)

Str(abs, segs) == [abs |-> abs, segs |-> segs]
NoStr == Str(FALSE, <<>>)
NoZip == [zip |-> FALSE, stem |-> ""]
Member(abs, segs, c) == [abs |-> abs, segs |-> segs, content |-> c]

\* the initial host filesystem:
\*   /a/d/f   a file in a directory
\*   /a/l     a symlink to /ab, a sibling of /a whose name starts with "a"
\*   /ab/f    a file
\*   /ab/e    an empty directory
FS0 ==
    LET nodes == [p \in {<<>>, <<"a">>, <<"a", "d">>, <<"ab">>, <<"ab", "e">>} |-> Dir]
    IN  (<<"a", "d", "f">> :> File(1)) @@ (<<"ab", "f">> :> File(2))
        @@ (<<"a", "l">> :> Link(<<"ab">>)) @@ nodes

\* the same host after /ab was removed: /a/l is a dangling symlink
FS1 == [p \in {q \in DOMAIN FS0 : ~IsUnder(q, <<"ab">>)} |-> FS0[p]]

Row(p, allowed) == [path |-> p, is_allowed |-> allowed]

\* contents of the allowed_roots table
\* the rows of a table carry their AUTO_INCREMENT ids
WithIds(t) ==
    [i \in 1..Len(t) |->
        [id |-> i, path |-> t[i].path, is_allowed |-> t[i].is_allowed]]

Tables ==
    { WithIds(t) : t \in
        { <<>>,
          <<Row(<<"a">>, TRUE)>>,
          <<Row(<<"a">>, TRUE), Row(<<"ab">>, TRUE)>>,
          <<Row(<<"a">>, TRUE), Row(<<"ab">>, FALSE)>>,
          <<Row(<<"a", "d">>, TRUE), Row(<<"a">>, TRUE)>> } }

PathsOf(table) == [i \in 1..Len(table) |-> table[i].path]

\* utils.ALLOWED_ROOTS, the list service.py imports: the registry's roots in
\* registration order, or a list fixed in the code
ImportedRootLists(table) == {PathsOf(table), <<<<"a">>>>}

\* path strings a caller sends
RelInputs ==
    { Str(FALSE, <<>>), Str(FALSE, <<"d">>), Str(FALSE, <<"d", "f">>),
      Str(FALSE, <<"l">>), Str(FALSE, <<"l", "f">>), Str(FALSE, <<"x">>),
      Str(FALSE, <<"f">>), Str(FALSE, <<"d", "..", "d">>), Str(FALSE, <<".">>) }

AbsInputs ==
    { Str(TRUE, <<"a">>), Str(TRUE, <<"a", "d">>), Str(TRUE, <<"a", "l">>),
      Str(TRUE, <<"a", "l", "f">>), Str(TRUE, <<"ab", "f">>),
      Str(TRUE, <<"a", "..", "ab">>), Str(TRUE, <<"a", "x", "..", "d">>),
      Str(TRUE, <<"a", "d", "x">>) }

Inputs == RelInputs \cup AbsInputs

\* new_name and filename strings
NameInputs ==
    { Str(FALSE, <<"x">>), Str(FALSE, <<"..", "x">>), Str(FALSE, <<"..", "..", "x">>),
      Str(TRUE, <<"x">>), Str(FALSE, <<"d", "x">>), Str(FALSE, <<"l", "x">>),
      Str(FALSE, <<"l">>) }

\* paths of the items renamed, and of the directories uploaded to
RenameInputs == { Str(FALSE, <<>>), Str(FALSE, <<"d">>), Str(FALSE, <<"d", "f">>),
                 Str(FALSE, <<"x">>), Str(TRUE, <<"a", "l">>), Str(TRUE, <<"ab", "f">>) }
UploadDirs == { Str(FALSE, <<>>), Str(FALSE, <<"d">>), Str(FALSE, <<"d", "f">>),
               Str(TRUE, <<"a", "l">>) }

\* paths of the folders exported
GenInputs == { Str(FALSE, <<>>), Str(FALSE, <<"d">>), Str(FALSE, <<"d", "f">>),
              Str(FALSE, <<"x">>), Str(TRUE, <<"ab">>) }

\* paths and names of the concurrent requests
RacePaths == { Str(FALSE, <<"d">>), Str(FALSE, <<"d", "f">>), Str(FALSE, <<"x">>) }
RaceNames == { Str(FALSE, <<"x">>) }
RaceDests == { Str(FALSE, <<>>) }

\* directories an exported archive is uploaded to
ExportDirs == { Str(FALSE, <<>>), Str(FALSE, <<"d">>) }

\* paths of the directories listed
ListInputs == { Str(FALSE, <<>>), Str(FALSE, <<"d">>), Str(FALSE, <<"d", "f">>),
               Str(FALSE, <<"x">>), Str(TRUE, <<"a", "l">>), Str(TRUE, <<"ab">>) }

SrcInputs == { Str(FALSE, <<"d">>), Str(FALSE, <<"d", "f">>), Str(TRUE, <<"ab", "f">>),
               Str(TRUE, <<"a", "l">>) }
DstInputs == { Str(FALSE, <<>>), Str(FALSE, <<"d">>), Str(FALSE, <<"l">>),
               Str(FALSE, <<"x">>) }

ZipDirs == { Str(FALSE, <<>>), Str(FALSE, <<"d">>), Str(FALSE, <<"d", "f">>),
             Str(TRUE, <<"ab">>) }

ZipNames == { [zip |-> TRUE, stem |-> "a"], [zip |-> TRUE, stem |-> "d"],
              [zip |-> FALSE, stem |-> "d"] }

\* archives: members in archive order
Archives ==
    { <<Member(FALSE, <<"x">>, 1)>>,
      <<Member(FALSE, <<"d", "x">>, 1), Member(FALSE, <<"f">>, 2)>>,
      <<Member(FALSE, <<"..", "ab", "f">>, 1)>>,
      <<Member(TRUE, <<"a", "ab", "f">>, 1)>>,
      <<Member(FALSE, <<"x">>, 1), Member(FALSE, <<"..", "..", "x">>, 2)>>,
      <<Member(TRUE, <<"x">>, 1)>>,
      <<Member(FALSE, <<"x">>, 1), Member(FALSE, <<"x", "f">>, 2)>> }

Contents == {3}

-----------------------------------------------------------------------------
(* The registry's routes: allowed_roots_router.py over allowed_root_crud.py *)
(* and crud.py.  A response is its HTTP status code.                        *)

\* crud.update: UPDATE ... WHERE id = %s, answering the number of rows
update(table, data, root_id) ==
    [rows |-> Cardinality({i \in 1..Len(table) : table[i].id = root_id}),
     table |-> [i \in 1..Len(table) |->
                   IF table[i].id = root_id
                   THEN [id |-> table[i].id,
                         path |-> IF "path" \in data.fields
                                  THEN data.path ELSE table[i].path,
                         is_allowed |-> IF "is_allowed" \in data.fields
                                        THEN data.is_allowed
                                        ELSE table[i].is_allowed]
                   ELSE table[i]]]

\* crud.delete: DELETE ... WHERE id = %s, answering cursor.rowcount; the
\* other rows stay in their order
delete(table, root_id) ==
    LET F[k \in 0..Len(table)] ==
            IF k = 0 THEN <<>>
            ELSE IF table[k].id # root_id THEN Append(F[k - 1], table[k])
            ELSE F[k - 1]
    IN  [rows |-> Cardinality({i \in 1..Len(table) : table[i].id = root_id}),
         table |-> F[Len(table)]]

\* update_allowed_root: the path is stored as str(Path(path).resolve())
update_allowed_root(f, table, root_id, upd) ==
    LET data == [upd EXCEPT !.path = Resolve(f, upd.path.segs).p]
    IN  IF upd.fields = {}
        THEN [raised |-> "ValueError", rows |-> 0, table |-> table]
        ELSE [raised |-> "none"] @@ update(table, data, root_id)

\* modify_allowed_root: an empty body is refused before the try block; the
\* 404 for "no row updated" is raised inside it.  The except clauses, in
\* their order: ValueError -> 400, Exception -> 500, and HTTPException is
\* an Exception
modify_allowed_root(f, table, root_id, upd, db_up) ==
    IF upd.fields = {} THEN [status |-> 400, table |-> table]
    ELSE LET r == update_allowed_root(f, table, root_id, upd)
             raised == IF ~db_up THEN "Error"
                       ELSE IF r.raised # "none" THEN r.raised
                       ELSE IF r.rows = 0 THEN "HTTPException(404)"
                       ELSE "none"
         IN  [status |-> CASE raised = "none" -> 200
                           [] raised = "ValueError" -> 400
                           [] OTHER -> 500,
              table |-> IF db_up THEN r.table ELSE table]

\* remove_allowed_root over delete_allowed_root, which is crud.delete; its
\* only except clause is Exception -> 500
remove_allowed_root(table, root_id, db_up) ==
    LET r == delete(table, root_id)
        raised == IF ~db_up THEN "Error"
                  ELSE IF r.rows = 0 THEN "HTTPException(404)"
                  ELSE "none"
    IN  [status |-> IF raised = "none" THEN 204 ELSE 500,
         table |-> IF db_up THEN r.table ELSE table]

-----------------------------------------------------------------------------
(* systemd.py: unit files in SYSTEMD_DIR and rows of systemd_services      *)

\* no unit file and no row
NoServices ==
    [units |-> {}, rows |-> {}, next_id |-> 1, n |-> 0,
     last |-> [op |-> "none", name |-> "", id |-> 0, fault |-> "none",
               status |-> 0]]

\* create_service: 409 when service_file(name).exists(), 400 for a relative
\* ExecStart, then write_text, reload_systemd and add, in that order; run
\* answers a failed command with HTTPException(400), and an exception of
\* add is a 500
create_service(s, name, exec_start_abs, fault) ==
    LET written == [s EXCEPT !.units = @ \cup {name}]
    IN  IF name \in s.units THEN [s |-> s, status |-> 409]
        ELSE IF ~exec_start_abs THEN [s |-> s, status |-> 400]
        ELSE IF fault = "daemon-reload" THEN [s |-> written, status |-> 400]
        ELSE IF fault = "database" THEN [s |-> written, status |-> 500]
        ELSE [s |-> [written EXCEPT
                        !.rows = @ \cup {[id |-> s.next_id, name |-> name]},
                        !.next_id = @ + 1],
              status |-> 201]

\* get_service_or_404
get_service_or_404(s, service_id) == {row \in s.rows : row.id = service_id}

\* delete_service: 404 without a row, then systemctl stop and disable,
\* unlink of the unit file when it exists, reload_systemd and delete
delete_service(s, service_id, fault) ==
    LET found == get_service_or_404(s, service_id)
        service == CHOOSE row \in found : TRUE
        unlinked == [s EXCEPT !.units = @ \ {service.name}]
    IN  IF found = {} THEN [s |-> s, status |-> 404]
        ELSE IF fault \in {"stop", "disable"} THEN [s |-> s, status |-> 400]
        ELSE IF fault = "daemon-reload" THEN [s |-> unlinked, status |-> 400]
        ELSE IF fault = "database" THEN [s |-> unlinked, status |-> 500]
        ELSE [s |-> [unlinked EXCEPT !.rows = @ \ found], status |-> 200]

-----------------------------------------------------------------------------
(* hardware_ws.py: clients[metric_name] for one metric, the handlers of    *)
(* its websockets and its broadcast task                                   *)

Socks == {1, 2}

\* no websocket has connected; the broadcast task, started with the
\* application, found no client and sleeps
NoClients ==
    [clients |-> {},
     h |-> [s \in Socks |-> "new"],
     peer |-> [s \in Socks |-> TRUE],
     removed |-> [s \in Socks |-> 0],
     got |-> [s \in Socks |-> 0],
     round |-> 0,
     b |-> [pc |-> "sleep", used |-> 0, start |-> {}, seen |-> {}, cur |-> 0,
            disconnected |-> {}]]

\* websocket_endpoint up to its first sleep: accept, then clients.add
websocket_endpoint(w, s) ==
    [w EXCEPT !.clients = @ \cup {s}, !.h[s] = "sleeping"]

\* the finally clause of websocket_endpoint: set.remove raises KeyError for
\* an element that is not in the set
websocket_endpoint_finally(w, s) ==
    IF s \in w.clients
    THEN [w EXCEPT !.clients = @ \ {s}, !.h[s] = "returned",
                   !.removed[s] = @ + 1]
    ELSE [w EXCEPT !.h[s] = "KeyError"]

\* broadcast at the head of "for ws in clients[metric_name]": the iterator
\* raises RuntimeError when the set's size is not the one it started with,
\* and the exception leaves the task; nxt = 0 is the end of the iteration,
\* followed by clients[metric_name].difference_update(disconnected) and the
\* sleep; any other nxt is the socket whose send_text is awaited next
broadcast_for(w, nxt) ==
    IF Cardinality(w.clients) # w.b.used THEN [w EXCEPT !.b.pc = "RuntimeError"]
    ELSE IF nxt = 0
    THEN [w EXCEPT !.clients = @ \ w.b.disconnected,
                   !.removed = [s \in Socks |->
                                   IF s \in w.clients \cap w.b.disconnected
                                   THEN @[s] + 1 ELSE @[s]],
                   !.b.pc = "sleep"]
    ELSE [w EXCEPT !.b.pc = "send", !.b.cur = nxt]

\* broadcast when its sleep ends: "while True", the test of the set, the
\* metric function, which never suspends, and the loop up to its first
\* send_text
broadcast_while(w, nxt) ==
    IF w.clients = {} THEN w
    ELSE broadcast_for([w EXCEPT !.round = @ + 1,
                                 !.b = [pc |-> "for",
                                        used |-> Cardinality(w.clients),
                                        start |-> w.clients, seen |-> {},
                                        cur |-> 0, disconnected |-> {}]],
                       nxt)

\* await ws.send_text(message) completes, and the loop goes on to its next
\* await: a send to a peer that has gone raises, and the bare except
\* collects the socket
broadcast_send(w, nxt) ==
    LET s == w.b.cur
    IN  broadcast_for(
            IF w.peer[s] /\ w.h[s] = "sleeping"
            THEN [w EXCEPT !.got[s] = w.round, !.b.seen = @ \cup {s}]
            ELSE [w EXCEPT !.b.disconnected = @ \cup {s},
                           !.b.seen = @ \cup {s}],
            nxt)

-----------------------------------------------------------------------------
(* The state machine *)

Record(op, path, arg, zn, ar, res) ==
    [op |-> op, path |-> path, arg |-> arg, zip_filename |-> zn,
     zip_content |-> ar, status |-> res.status, ret |-> res.ret,
     rstatus |-> res.rstatus, full |-> res.full, dest |-> res.dest,
     items |-> res.items]

\* a request that has not arrived
NoProc == [pc |-> "idle", op |-> "none", path |-> NoStr, arg |-> NoStr,
           full |-> <<>>, dst |-> <<>>, status |-> "none", seen |-> FS0,
           raced |-> FALSE]

NoCall == Record("none", NoStr, NoStr, NoZip, <<>>,
                 Res(FS0, "none", <<>>, Err("none"), <<>>))

\* the host with the dangling symlink is started with the single root /a
Init ==
    /\ fs \in {FS0, FS1}
    /\ allowed_roots \in Tables
    /\ fs = FS1 => PathsOf(allowed_roots) = <<<<"a">>>>
    /\ ALLOWED_ROOTS \in ImportedRootLists(allowed_roots)
    /\ call = NoCall
    /\ prev = fs
    /\ nops = 0
    /\ gen = NoGen
    /\ pcs = [p \in Procs |-> NoProc]
    /\ hist = <<>>
    /\ svc = NoServices
    /\ ws = NoClients

\* one call of a file-manager operation, from request to response
Call(op, path, arg, zn, ar, res) ==
    /\ fs' = res.fs
    /\ prev' = fs
    /\ call' = Record(op, path, arg, zn, ar, res)
    /\ UNCHANGED <<allowed_roots, ALLOWED_ROOTS, pcs, hist, svc, ws>>

Do(op, path, arg, zn, ar, res) ==
    /\ nops < MaxOps
    /\ nops' = nops + 1
    /\ Call(op, path, arg, zn, ar, res)

ListItems ==
    \E path \in ListInputs :
        /\ Do("list_items", path, NoStr, NoZip, <<>>,
              list_items(fs, allowed_roots, ALLOWED_ROOTS, path))
        /\ UNCHANGED gen

CreateFolder ==
    \E path \in Inputs :
        /\ Do("create_folder", path, NoStr, NoZip, <<>>,
              create_folder(fs, allowed_roots, ALLOWED_ROOTS, path))
        /\ UNCHANGED gen

RenameItem ==
    \E path \in RenameInputs, new_name \in NameInputs :
        /\ Do("rename_item", path, new_name, NoZip, <<>>,
              rename_item(fs, allowed_roots, ALLOWED_ROOTS, path, new_name))
        /\ UNCHANGED gen

DeleteItem ==
    \E path \in Inputs :
        /\ Do("delete_item", path, NoStr, NoZip, <<>>,
              delete_item(fs, allowed_roots, path))
        /\ UNCHANGED gen

UploadFile ==
    \E path \in UploadDirs, filename \in NameInputs, content \in Contents :
        /\ Do("upload_file", path, filename, NoZip, <<>>,
              upload_file(fs, allowed_roots, ALLOWED_ROOTS, path, filename, content))
        /\ UNCHANGED gen

UploadAndExtractZip ==
    \E path \in ZipDirs, zn \in ZipNames, ar \in Archives :
        /\ Do("upload_and_extract_zip", path, NoStr, zn, ar,
              upload_and_extract_zip(fs, allowed_roots, ALLOWED_ROOTS, path, ar, zn))
        /\ UNCHANGED gen

DownloadFilePath ==
    \E path \in Inputs :
        /\ Do("download_file_path", path, NoStr, NoZip, <<>>,
              download_file_path(fs, allowed_roots, path))
        /\ UNCHANGED gen

CopyItem ==
    \E src_path \in SrcInputs, dest_path \in DstInputs :
        /\ Do("copy_item", src_path, dest_path, NoZip, <<>>,
              copy_item(fs, allowed_roots, ALLOWED_ROOTS, src_path, dest_path))
        /\ UNCHANGED gen

MoveItem ==
    \E src_path \in SrcInputs, dest_path \in DstInputs :
        /\ Do("move_item", src_path, dest_path, NoZip, <<>>,
              move_item(fs, allowed_roots, ALLOWED_ROOTS, src_path, dest_path))
        /\ UNCHANGED gen

Next ==
    \/ ListItems
    \/ CreateFolder
    \/ RenameItem
    \/ DeleteItem
    \/ UploadFile
    \/ UploadAndExtractZip
    \/ DownloadFilePath
    \/ CopyItem
    \/ MoveItem

Spec == Init /\ [][Next]_vars

-----------------------------------------------------------------------------
(* Archive export as a state machine: the request handler creates the      *)
(* generator, the response streams it with next() and may drop it.         *)

GetFolderZipGenerator ==
    \E path \in GenInputs :
        LET res == get_folder_zip_generator(fs, allowed_roots, path)
        IN  /\ gen.pc \in {"none", "done"}
            /\ gen.runs < MaxRuns
            /\ Call("get_folder_zip_generator", path, NoStr, NoZip, <<>>, res)
            /\ UNCHANGED nops
            /\ gen' = IF res.status = "ok" THEN NewGen(gen, res.full) ELSE gen

\* the exported folder, or an item in it, is deleted while the export runs
DeleteExported ==
    \E path \in GenInputs :
        /\ Do("delete_item", path, NoStr, NoZip, <<>>,
              delete_item(fs, allowed_roots, path))
        /\ UNCHANGED gen

\* the client uploads the archive it has received completely
UploadExported ==
    \E path \in ExportDirs, zn \in ZipNames :
        /\ gen.pc = "done"
        /\ gen.end = "exhausted"
        /\ Do("upload_and_extract_zip", path, NoStr, zn, gen.archive,
              upload_and_extract_zip(fs, allowed_roots, ALLOWED_ROOTS, path,
                                     gen.archive, zn))
        /\ UNCHANGED gen

GenFirst ==
    /\ gen.pc = "new"
    /\ \E built \in BOOLEAN, chunks \in 1..MaxChunks :
           gen' = gen_first(gen, fs, built, chunks)
    /\ UNCHANGED <<fs, allowed_roots, ALLOWED_ROOTS, call, prev, nops, pcs,
                   hist, svc, ws>>

GenResume ==
    /\ gen.pc = "yielded"
    /\ \E readok \in BOOLEAN : gen' = gen_resume(gen, readok)
    /\ UNCHANGED <<fs, allowed_roots, ALLOWED_ROOTS, call, prev, nops, pcs,
                   hist, svc, ws>>

GenClose ==
    /\ gen.pc \in {"new", "yielded"}
    /\ gen' = gen_close(gen)
    /\ UNCHANGED <<fs, allowed_roots, ALLOWED_ROOTS, call, prev, nops, pcs,
                   hist, svc, ws>>

NextGen ==
    \/ GetFolderZipGenerator
    \/ GenFirst
    \/ GenResume
    \/ GenClose
    \/ DeleteExported
    \/ UploadExported

SpecGen == Init /\ [][NextGen]_vars

\* the response iterates the generator for as long as it is not dropped:
\* every next() that can be made is made
SpecGenFair == SpecGen /\ WF_vars(GenFirst) /\ WF_vars(GenResume)

-----------------------------------------------------------------------------
(* Concurrent requests as a state machine: the checks of a handler are one  *)
(* step and its filesystem call is a later step.                            *)

\* the handler of request p has run its checks on the filesystem as it is
Begin(p, op, path, arg, chk) ==
    /\ pcs[p].pc = "idle"
    /\ pcs' = [pcs EXCEPT ![p] =
                  [pc |-> IF chk.status = "ok" THEN "checked" ELSE "done",
                   op |-> op, path |-> path, arg |-> arg,
                   full |-> chk.full, dst |-> chk.dst, status |-> chk.status,
                   seen |-> fs, raced |-> FALSE]]
    /\ UNCHANGED <<fs, allowed_roots, ALLOWED_ROOTS, call, prev, nops,
                   hist, svc, ws>>

\* the handler of request p makes its filesystem call and returns
End(p, op, act) ==
    /\ pcs[p].pc = "checked"
    /\ pcs[p].op = op
    /\ fs' = act.fs
    /\ pcs' = [pcs EXCEPT ![p].pc = "done", ![p].status = act.st,
                          ![p].raced = (fs # pcs[p].seen)]
    /\ UNCHANGED <<allowed_roots, ALLOWED_ROOTS, call, prev, nops,
                   hist, svc, ws>>

CreateFolderChecks ==
    \E p \in Procs, path \in RacePaths :
        /\ Begin(p, "create_folder", path, NoStr,
                 create_folder_checks(fs, allowed_roots, path))
        /\ UNCHANGED gen

CreateFolderActs ==
    \E p \in Procs :
        /\ End(p, "create_folder", create_folder_acts(fs, ALLOWED_ROOTS, pcs[p].full))
        /\ UNCHANGED gen

RenameItemChecks ==
    \E p \in Procs, path \in RacePaths, new_name \in RaceNames :
        /\ Begin(p, "rename_item", path, new_name,
                 rename_item_checks(fs, allowed_roots, path, new_name))
        /\ UNCHANGED gen

RenameItemActs ==
    \E p \in Procs :
        /\ End(p, "rename_item",
               rename_item_acts(fs, ALLOWED_ROOTS, pcs[p].full, pcs[p].dst))
        /\ UNCHANGED gen

DeleteItemChecks ==
    \E p \in Procs, path \in RacePaths :
        /\ Begin(p, "delete_item", path, NoStr,
                 delete_item_checks(fs, allowed_roots, path))
        /\ UNCHANGED gen

DeleteItemActs ==
    \E p \in Procs :
        /\ End(p, "delete_item", delete_item_acts(fs, pcs[p].full))
        /\ UNCHANGED gen

CopyItemChecks ==
    \E p \in Procs, src_path \in RacePaths, dest_path \in RaceDests :
        /\ Begin(p, "copy_item", src_path, dest_path,
                 copy_item_checks(fs, allowed_roots, src_path, dest_path))
        /\ UNCHANGED gen

CopyItemActs ==
    \E p \in Procs :
        /\ End(p, "copy_item",
               copy_item_acts(fs, ALLOWED_ROOTS, pcs[p].full, pcs[p].dst))
        /\ UNCHANGED gen

NextRace ==
    \/ CreateFolderChecks
    \/ CreateFolderActs
    \/ RenameItemChecks
    \/ RenameItemActs
    \/ DeleteItemChecks
    \/ DeleteItemActs
    \/ CopyItemChecks
    \/ CopyItemActs

SpecRace == Init /\ [][NextRace]_vars

-----------------------------------------------------------------------------
(* Properties *)

\* the registered roots, resolved as the resolver resolves them, at the
\* time of the last call
RootAt(i) == Resolve(prev, allowed_roots[i].path).p
RootIds == 1..Len(allowed_roots)
InSomeRoot(p) == \E i \in RootIds : IsUnder(p, RootAt(i))

\* the last call went through resolve_safe_path
Resolved == call.rstatus = "ok"

\* paths created, overwritten, renamed or removed by the last call
Changed ==
    {p \in DOMAIN fs \cup DOMAIN prev :
        p \notin DOMAIN fs \/ p \notin DOMAIN prev \/ fs[p] # prev[p]}

\* C1: every path a file-manager call creates, overwrites, renames or
\* removes lies segment-wise inside some registered root.
C1_GlobalContainment == \A p \in Changed : InSomeRoot(p)

ExtractTo == call.full \o <<call.zip_filename.stem>>

\* the member's resolved destination is not a descendant of the extraction folder
Escapes(member) ==
    LET mp == MemberPath(prev, ExtractTo, member)
    IN  mp.st = "ok" /\ ~IsUnder(mp.p, Resolve(prev, ExtractTo).p)

ReachedZipCheck ==
    /\ call.op = "upload_and_extract_zip"
    /\ Resolved
    /\ call.status \notin {"only_zip", "not_dir", "exists"}

\* C2: an extraction that gets as far as the member check fails with the
\* path-traversal error whenever some member's resolved destination is not a
\* segment-wise descendant of the extraction folder.
C2_ZipSlipRejected ==
    (ReachedZipCheck /\ \E k \in 1..Len(call.zip_content) : Escapes(call.zip_content[k]))
        => call.status = "zip_traversal"

ZipRejections == {"only_zip", "not_dir", "exists", "zip_traversal"}

\* the extraction folder of the last call, when its path argument resolves
ExtractionFolderExists ==
    LET r == resolve_safe_path(prev, allowed_roots, call.path)
    IN  r.status = "ok" /\ Exists(fs, r.path \o <<call.zip_filename.stem>>)

\* C3 as stated: after any of the four rejections of upload_and_extract_zip
\* the filesystem is as before and the extraction folder does not exist.
C3_RejectedLeavesNoFolder ==
    (call.op = "upload_and_extract_zip" /\ call.status \in ZipRejections)
        => (fs = prev /\ ~ExtractionFolderExists)

\* C3 (amended): after any of the four rejections the filesystem is exactly
\* as before the call; after the invalid-destination and the traversal
\* rejection the extraction folder does not exist.
C3_AllOrNothing ==
    (call.op = "upload_and_extract_zip" /\ call.status \in ZipRejections)
        => /\ fs = prev
           /\ call.status \in {"not_dir", "zip_traversal"} => ~ExtractionFolderExists

\* a two-member archive is rejected for its last member only
C3_Witness ==
    /\ call.op = "upload_and_extract_zip"
    /\ call.status = "zip_traversal"
    /\ Len(call.zip_content) = 2
    /\ ZipCheck(prev, ExtractTo, SubSeq(call.zip_content, 1, 1), 1) = "ok"
    /\ fs = prev

\* C4: an absolute input that is accepted yields a path inside a
\* registered root, also when a component below the root is a symlink.
C4_AbsoluteStaysInRoot ==
    (Resolved /\ call.path.abs) => InSomeRoot(call.full)

\* C5: a relative input that is accepted yields the resolved form of
\* root/input for a registered root, and that path, resolved again, is the
\* resolved root or a segment-wise descendant of it.
C5_RelativeStaysInRoot ==
    (Resolved /\ ~call.path.abs) =>
        \E i \in RootIds :
            /\ call.full = Resolve(prev, RootAt(i) \o DropDots(call.path.segs)).p
            /\ IsUnder(Resolve(prev, call.full).p, RootAt(i))

\* a relative input through the symlink /a/l is refused for /a and is
\* accepted for the later root /ab
C5_Witness ==
    /\ Resolved
    /\ call.path = Str(FALSE, <<"l", "f">>)
    /\ call.full = <<"ab", "l", "f">>

\* C6: a rename leaves the item a direct child of the directory it was in.
C6_RenameStaysInParent ==
    (call.op = "rename_item" /\ call.dest # <<>>)
        => Parent(call.dest) = Parent(call.full)

\* C8: an absolute input that lies only under rows with is_allowed = FALSE
\* is rejected with the denied error.
C8_OnlyAllowedRootsGrant ==
    LET n == normpath(DropDots(call.path.segs))
    IN  (/\ call.rstatus # "none"
         /\ call.path.abs
         /\ \E i \in RootIds : ~allowed_roots[i].is_allowed /\ IsUnder(n, RootAt(i))
         /\ \A i \in RootIds : allowed_roots[i].is_allowed => ~IsUnder(n, RootAt(i)))
        => call.rstatus = "denied"

HasDotDot(inp) == \E k \in 1..Len(inp.segs) : inp.segs[k] = ".."

NoLinkOn(f, p) == \A q \in Ancestors(p) : q \in DOMAIN f => f[q].kind # "link"

\* C9: with the mapper using the registry's roots, all of them allowed, and
\* no symlink on the accepted path, resolving the virtual path that
\* _get_virtual_path produces for an accepted path gives that path again.
C9_VirtualRoundTrip ==
    LET v == _get_virtual_path(ALLOWED_ROOTS, call.full)
    IN  (/\ Resolved
         /\ ALLOWED_ROOTS = PathsOf(allowed_roots)
         /\ \A i \in RootIds : allowed_roots[i].is_allowed
         /\ NoLinkOn(prev, JoinPath(RootAt(1), call.path))
         /\ v.status = "ok")
        => resolve_safe_path(prev, allowed_roots, VirtualStr(v.path)) = Ok(call.full)

\* the input normalizes lexically to a path strictly inside root i
NormalizesInside(inp, i) ==
    LET n == IF inp.abs THEN normpath(DropDots(inp.segs))
             ELSE normpath(RootAt(i) \o DropDots(inp.segs))
    IN  IsUnder(n, RootAt(i)) /\ n # RootAt(i)

C7_TempFileReleased ==
    gen.pc = "done" =>
        /\ gen.tmpdir = {}
        /\ gen.tmp_name # 0 => gen.unlinks = 1
        /\ gen.tmp_name = 0 => gen.unlinks = 0

\* the consumer dropped the generator after a chunk
C7_Witness ==
    /\ gen.pc = "done"
    /\ gen.end = "closed"
    /\ gen.tmp_name # 0
    /\ gen.unlinks = 1

\* C11: with a non-empty registry, a relative input with a ".." segment is
\* rejected as invalid whatever the roots and the filesystem are, and an
\* absolute input that normalizes to a path outside every registered root is
\* rejected as denied; neither is ever answered with a path.
C11_TraversalNeverResolves ==
    LET n == normpath(DropDots(call.path.segs))
    IN  call.rstatus \notin {"none", "no_roots"} =>
        /\ (~call.path.abs /\ HasDotDot(call.path)) => call.rstatus = "dotdot"
        /\ (call.path.abs /\ ~InSomeRoot(n)) => call.rstatus = "denied"

\* "/a/../ab" leaves the only root /a once normalized
C11_Witness ==
    /\ call.path = Str(TRUE, <<"a", "..", "ab">>)
    /\ PathsOf(allowed_roots) = <<<<"a">>>>
    /\ call.rstatus = "denied"
    /\ fs = prev

\* root i contains the input of the last call, as the resolver tests it
Contained(i) ==
    IF call.path.abs THEN IsUnder(normpath(DropDots(call.path.segs)), RootAt(i))
    ELSE IsUnder(Resolve(prev, RootAt(i) \o DropDots(call.path.segs)).p, RootAt(i))

\* what the resolver returns when root i decides
DecidedBy(i) ==
    IF call.path.abs THEN Resolve(prev, normpath(DropDots(call.path.segs))).p
    ELSE Resolve(prev, RootAt(i) \o DropDots(call.path.segs)).p

\* C12: an accepted non-empty input is decided by the earliest root, in
\* registration order, that contains it, and the answer is the one the
\* resolver gives with every later root removed from the registry.
C12_FirstMatchWins ==
    (Resolved /\ ~IsEmptyStr(call.path)) =>
        \E k \in RootIds :
            /\ Contained(k)
            /\ \A j \in 1..(k - 1) : ~Contained(j)
            /\ call.full = DecidedBy(k)
            /\ resolve_safe_path(prev, SubSeq(allowed_roots, 1, k), call.path)
                   = Ok(call.full)

\* "f" is contained in the nested roots /a/d and /a; /a/d, registered
\* first, decides
C12_Witness ==
    /\ Resolved
    /\ call.path = Str(FALSE, <<"f">>)
    /\ PathsOf(allowed_roots) = << <<"a", "d">>, <<"a">> >>
    /\ Contained(1) /\ Contained(2)
    /\ call.full = <<"a", "d", "f">>

C14_EmptyInputFirstRoot ==
    (call.rstatus # "none" /\ IsEmptyStr(call.path) /\ Len(allowed_roots) > 0)
        => (Resolved /\ call.full = allowed_roots[1].path)

\* the first root was deleted before the call, and a second root is registered
C14_Witness ==
    /\ call.op = "get_folder_zip_generator"
    /\ IsEmptyStr(call.path)
    /\ Len(allowed_roots) = 2
    /\ ~Exists(prev, allowed_roots[1].path)
    /\ call.full = allowed_roots[1].path

\* the operations that answer with a virtual path
ReturnsPath ==
    call.op \in {"create_folder", "rename_item", "upload_file",
                 "upload_and_extract_zip", "copy_item", "move_item"}

NoDotDotIn(segs) == \A k \in 1..Len(segs) : segs[k] # ".."

\* C15: with the mapper using the registry's roots, the path string a
\* successful call returns, and the path field of every listed entry, has
\* no ".." segment and names, below some registered root, the item the call
\* made or listed.
C15_ReturnedPathsAreVirtual ==
    (call.status = "ok" /\ ALLOWED_ROOTS = PathsOf(allowed_roots)) =>
        /\ ReturnsPath =>
              /\ NoDotDotIn(call.ret)
              /\ \E i \in RootIds : RootAt(i) \o call.ret = call.dest
        /\ \A k \in 1..Len(call.items) :
              /\ NoDotDotIn(call.items[k].path)
              /\ \E i \in RootIds :
                    RootAt(i) \o call.items[k].path = Append(call.full, call.items[k].name)

\* C16: with the mapper using the registry's roots, the mapper succeeds on
\* every path the resolver returned, and no call ends with the mapper's
\* failure reported as the client error 403.
C16_MapperAgreesWithResolver ==
    ALLOWED_ROOTS = PathsOf(allowed_roots) =>
        /\ Resolved => _get_virtual_path(ALLOWED_ROOTS, call.full).status = "ok"
        /\ call.status # "unmapped"

\* the last call extracted the archive of the last export, every root is
\* allowed, and the exported tree holds directories and regular files only
ExportedThenExtracted ==
    /\ \A i \in RootIds : allowed_roots[i].is_allowed
    /\ call.op = "upload_and_extract_zip"
    /\ call.status = "ok"
    /\ gen.end = "exhausted"
    /\ call.zip_content = gen.archive
    /\ \A q \in DOMAIN gen.tree : gen.tree[q].kind # "link"

\* C17: extracting the archive of an exported tree of directories and
\* regular files gives a tree with the same relative paths and the same file
\* contents.
C17_ArchiveRoundTrip ==
    ExportedThenExtracted => RelTree(fs, call.dest) = gen.tree

DeclaredOutcomes == {"ok", "not_found", "exists", "not_dir", "denied", "dotdot"}

\* C18: a request whose checks passed, and whose filesystem call ran after
\* the other request had changed the filesystem, ends in success or in a
\* declared error.
C18_RaceEndsInDeclaredOutcome ==
    \A p \in Procs :
        (pcs[p].pc = "done" /\ pcs[p].raced) => pcs[p].status \in DeclaredOutcomes

\* an item, of any kind, is at location p: a dangling symlink is one
ItemAt(f, p) ==
    LET w == Walk(f, <<>>, p, "lstat", MaxFollow)
    IN  w.st = "ok" /\ w.p \in DOMAIN f

\* the second path argument of copy_item and move_item, resolved
DestDir == resolve_safe_path(prev, allowed_roots, call.arg)

\* the last call passed the checks that precede its destination check
ReachedDestination ==
    /\ Resolved
    /\ CASE call.op = "create_folder" -> TRUE
         [] call.op = "rename_item" -> Exists(prev, call.full)
         [] call.op = "upload_file" -> IsDir(prev, call.full)
         [] call.op = "upload_and_extract_zip" ->
                call.zip_filename.zip /\ IsDir(prev, call.full)
         [] call.op \in {"copy_item", "move_item"} ->
                /\ DestDir.status = "ok"
                /\ Exists(prev, call.full)
                /\ IsDir(prev, DestDir.path)
         [] OTHER -> FALSE

\* the destination the last call computed
Destination ==
    CASE call.op = "create_folder" -> call.full
      [] call.op = "rename_item" -> JoinPath(Parent(call.full), call.arg)
      [] call.op = "upload_file" -> JoinPath(call.full, call.arg)
      [] call.op = "upload_and_extract_zip" -> ExtractTo
      [] OTHER -> DestDir.path \o <<Last(call.full)>>

\* C19: a call whose computed destination holds an item fails with the
\* already-exists error and leaves the filesystem as it was.
C19_NoOverwrite ==
    (ReachedDestination /\ ItemAt(prev, Destination))
        => (call.status = "exists" /\ fs = prev)

\* the errors a caller is answered with: 400, 403, 404 and 409; the mapper's
\* "not under any allowed root" is a 403 as well
ErrorOutcomes ==
    {"dotdot", "denied", "unmapped", "not_found", "not_dir", "exists",
     "only_zip", "zip_traversal"}

\* C20: with the mapper using the registry's roots, a call answered with
\* an error leaves the filesystem as it was before the call.
C20_ErrorLeavesFilesystem ==
    (call.status \in ErrorOutcomes /\ ALLOWED_ROOTS = PathsOf(allowed_roots))
        => fs = prev

-----------------------------------------------------------------------------
(* A session of calls on one root: every call is kept in hist              *)

MaxSeq == 3        \* number of calls in a session

\* one call of a session, from request to response
SeqCall(op, path, arg, res) ==
    /\ Len(hist) < MaxSeq
    /\ fs' = res.fs
    /\ prev' = fs
    /\ call' = Record(op, path, arg, NoZip, <<>>, res)
    /\ hist' = Append(hist, [op |-> op, path |-> path, arg |-> arg,
                             status |-> res.status, items |-> res.items,
                             before |-> fs, after |-> res.fs])
    /\ UNCHANGED <<allowed_roots, ALLOWED_ROOTS, nops, pcs, svc, ws>>

\* the calls name the root itself, x and y, names that no root holds at
\* the start, and e, a name that only the root /ab holds
SeqCreateFolder ==
    \E path \in {Str(FALSE, <<>>), Str(FALSE, <<"x">>), Str(FALSE, <<"e">>)} :
        /\ SeqCall("create_folder", path, NoStr,
                   create_folder(fs, allowed_roots, ALLOWED_ROOTS, path))
        /\ UNCHANGED gen

SeqRenameItem ==
    /\ SeqCall("rename_item", Str(FALSE, <<"x">>), Str(FALSE, <<"y">>),
               rename_item(fs, allowed_roots, ALLOWED_ROOTS,
                           Str(FALSE, <<"x">>), Str(FALSE, <<"y">>)))
    /\ UNCHANGED gen

SeqDeleteItem ==
    \E path \in {Str(FALSE, <<>>), Str(FALSE, <<"y">>)} :
        /\ SeqCall("delete_item", path, NoStr,
                   delete_item(fs, allowed_roots, path))
        /\ UNCHANGED gen

SeqListItems ==
    /\ SeqCall("list_items", NoStr, NoStr,
               list_items(fs, allowed_roots, ALLOWED_ROOTS, NoStr))
    /\ UNCHANGED gen

SeqCopyItem ==
    /\ SeqCall("copy_item", Str(FALSE, <<"y">>), NoStr,
               copy_item(fs, allowed_roots, ALLOWED_ROOTS,
                         Str(FALSE, <<"y">>), NoStr))
    /\ UNCHANGED gen

NextSeq ==
    \/ SeqCreateFolder
    \/ SeqRenameItem
    \/ SeqDeleteItem
    \/ SeqListItems
    \/ SeqCopyItem

SpecSeq == Init /\ [][NextSeq]_vars

-----------------------------------------------------------------------------
(* The registry's routes as a state machine                                *)

MaxRootCalls == 2  \* number of calls of the registry's routes

\* PUT /allowed-roots/{root_id}; upd: the fields of the AllowedRootUpdate
\* that the body sets, and their values; db_up: the database answers
ModifyAllowedRoot ==
    \E root_id \in 1..3, db_up \in BOOLEAN,
       upd \in { [fields |-> {}, path |-> NoStr, is_allowed |-> TRUE],
                 [fields |-> {"is_allowed"}, path |-> NoStr, is_allowed |-> TRUE],
                 [fields |-> {"is_allowed"}, path |-> NoStr, is_allowed |-> FALSE],
                 [fields |-> {"path"}, path |-> Str(TRUE, <<"ab">>),
                  is_allowed |-> TRUE] } :
        LET res == modify_allowed_root(fs, allowed_roots, root_id, upd, db_up)
        IN  /\ Len(hist) < MaxRootCalls
            /\ allowed_roots' = res.table
            /\ hist' = Append(hist, [op |-> "modify_allowed_root",
                                     root_id |-> root_id, db_up |-> db_up,
                                     fields |-> upd.fields,
                                     status |-> res.status,
                                     before |-> allowed_roots])
            /\ UNCHANGED <<fs, ALLOWED_ROOTS, call, prev, nops, gen, pcs, svc, ws>>

\* DELETE /allowed-roots/{root_id}
RemoveAllowedRoot ==
    \E root_id \in 1..3, db_up \in BOOLEAN :
        LET res == remove_allowed_root(allowed_roots, root_id, db_up)
        IN  /\ Len(hist) < MaxRootCalls
            /\ allowed_roots' = res.table
            /\ hist' = Append(hist, [op |-> "remove_allowed_root",
                                     root_id |-> root_id, db_up |-> db_up,
                                     status |-> res.status,
                                     before |-> allowed_roots])
            /\ UNCHANGED <<fs, ALLOWED_ROOTS, call, prev, nops, gen, pcs, svc, ws>>

NextRoots ==
    \/ ModifyAllowedRoot
    \/ RemoveAllowedRoot

SpecRoots == Init /\ [][NextRoots]_vars

-----------------------------------------------------------------------------
(* systemd.py as a state machine                                           *)

MaxSvcCalls == 3   \* number of create_service and delete_service calls

\* POST /services; fault: the step of the call that fails on the host
CreateService ==
    \E name \in {"s1", "s2"}, exec_start_abs \in BOOLEAN,
       fault \in {"none", "daemon-reload", "database"} :
        LET res == create_service(svc, name, exec_start_abs, fault)
        IN  /\ svc.n < MaxSvcCalls
            /\ svc' = [res.s EXCEPT
                          !.n = @ + 1,
                          !.last = [op |-> "create_service", name |-> name,
                                    id |-> 0, fault |-> fault,
                                    status |-> res.status]]
            /\ UNCHANGED <<fs, allowed_roots, ALLOWED_ROOTS, call, prev, nops,
                           gen, pcs, hist, ws>>

\* DELETE /services/{service_id}
DeleteService ==
    \E service_id \in 1..MaxSvcCalls,
       fault \in {"none", "stop", "disable", "daemon-reload", "database"} :
        LET res == delete_service(svc, service_id, fault)
        IN  /\ svc.n < MaxSvcCalls
            /\ svc' = [res.s EXCEPT
                          !.n = @ + 1,
                          !.last = [op |-> "delete_service", name |-> "",
                                    id |-> service_id, fault |-> fault,
                                    status |-> res.status]]
            /\ UNCHANGED <<fs, allowed_roots, ALLOWED_ROOTS, call, prev, nops,
                           gen, pcs, hist, ws>>

NextSvc ==
    \/ CreateService
    \/ DeleteService

SpecSvc == Init /\ [][NextSvc]_vars

-----------------------------------------------------------------------------
(* hardware_ws.py as a state machine: the coroutines interleave at their   *)
(* awaits                                                                  *)

MaxRounds == 2     \* rounds of the broadcast loop

\* one step of a coroutine, from an await to the next
WsStep(w) ==
    /\ ws' = w
    /\ UNCHANGED <<fs, allowed_roots, ALLOWED_ROOTS, call, prev, nops, pcs,
                   hist, svc>>

\* a client connects: the handler runs to its first sleep
WebsocketEndpoint ==
    \E s \in Socks :
        /\ ws.h[s] = "new"
        /\ WsStep(websocket_endpoint(ws, s))
        /\ UNCHANGED gen

\* the client of a connected socket goes away; the handler, which never
\* receives, is not told
PeerGone ==
    \E s \in Socks :
        /\ ws.h[s] = "sleeping"
        /\ ws.peer[s]
        /\ WsStep([ws EXCEPT !.peer[s] = FALSE])
        /\ UNCHANGED gen

\* the handler's task is cancelled in its sleep and runs its finally clause
WebsocketEndpointFinally ==
    \E s \in Socks :
        /\ ws.h[s] = "sleeping"
        /\ WsStep(websocket_endpoint_finally(ws, s))
        /\ UNCHANGED gen

\* the elements the iterator of a set can produce next: those it has not
\* produced, new ones among them when the set changed but not in size; 0,
\* the end, when none of those it started with is left
BroadcastWhile ==
    /\ ws.b.pc = "sleep"
    /\ ws.round < MaxRounds
    /\ \E nxt \in ws.clients \cup {0} :
          /\ nxt = 0 <=> ws.clients = {}
          /\ WsStep(broadcast_while(ws, nxt))
    /\ UNCHANGED gen

BroadcastSend ==
    /\ ws.b.pc = "send"
    /\ \E nxt \in (ws.clients \ (ws.b.seen \cup {ws.b.cur})) \cup {0} :
          /\ nxt = 0 =>
                 (ws.clients \ (ws.b.seen \cup {ws.b.cur})) \cap ws.b.start = {}
          /\ WsStep(broadcast_send(ws, nxt))
    /\ UNCHANGED gen

NextWs ==
    \/ WebsocketEndpoint
    \/ PeerGone
    \/ WebsocketEndpointFinally
    \/ BroadcastWhile
    \/ BroadcastSend

SpecWs == Init /\ [][NextWs]_vars

-----------------------------------------------------------------------------
(* Properties of sessions *)

Range(seq) == {seq[k] : k \in 1..Len(seq)}

\* the first root, as the resolver sees it before call i
SeqRoot(i) == Resolve(hist[i].before, allowed_roots[1].path).p

\* the registry holds one root, and it is a directory before call i
OneRootAt(i) ==
    /\ Len(allowed_roots) = 1
    /\ IsDir(hist[i].before, SeqRoot(i))

\* call i of the session is op(path), path a string
IsCall(i, op, path) ==
    /\ i \in 1..Len(hist)
    /\ hist[i].op = op
    /\ hist[i].path = path

NameX == Str(FALSE, <<"x">>)
NameY == Str(FALSE, <<"y">>)

\* the names x and y are not in the root before call i
NamesAbsentAt(i) ==
    {"x", "y"} \cap Names(hist[i].before, SeqRoot(i)) = {}

\* C21: with one root, an existing directory that holds neither x nor y:
\* after create_folder(x), list_items shows the children the root had and
\* one more entry, a folder named x; create_folder(x), rename_item(x, y),
\* delete_item(y) all succeed and leave the filesystem as it was before;
\* list_items of a root without children returns the empty list; copy_item
\* of a missing source fails with not found.
C21_CreateRenameDeleteRestores ==
    \A i \in 1..Len(hist) :
        OneRootAt(i) =>
            /\ (/\ IsCall(i, "create_folder", NameX)
                /\ NamesAbsentAt(i)
                /\ IsCall(i + 1, "list_items", NoStr))
                  => /\ hist[i].status = "ok"
                     /\ hist[i + 1].status = "ok"
                     /\ {e.name : e \in Range(hist[i + 1].items)}
                            = Names(hist[i].before, SeqRoot(i)) \cup {"x"}
                     /\ Len(hist[i + 1].items)
                            = Cardinality(Names(hist[i].before, SeqRoot(i))) + 1
                     /\ \E k \in 1..Len(hist[i + 1].items) :
                           /\ hist[i + 1].items[k].name = "x"
                           /\ hist[i + 1].items[k].type = "folder"
            /\ (/\ IsCall(i, "create_folder", NameX)
                /\ NamesAbsentAt(i)
                /\ IsCall(i + 1, "rename_item", NameX)
                /\ hist[i + 1].arg = NameY
                /\ IsCall(i + 2, "delete_item", NameY))
                  => /\ \A k \in i..(i + 2) : hist[k].status = "ok"
                     /\ hist[i + 2].after = hist[i].before
            /\ (/\ IsCall(i, "list_items", NoStr)
                /\ Names(hist[i].before, SeqRoot(i)) = {})
                  => (hist[i].status = "ok" /\ hist[i].items = <<>>)
            /\ (/\ hist[i].op = "copy_item"
                /\ ~Exists(hist[i].before, SeqRoot(i) \o hist[i].path.segs))
                  => hist[i].status = "not_found"

\* C22: list_items of a path the resolver accepts fails with not found
\* when the path is absent and with not-a-directory when it is not a
\* directory; otherwise it succeeds with one entry per direct child, the
\* size is null exactly for the folders, every folder precedes every file,
\* and within a kind the names ascend case-insensitively.
C22_ListingComplete ==
    (call.op = "list_items" /\ Resolved) =>
        IF ~Exists(prev, call.full) THEN call.status = "not_found"
        ELSE IF ~IsDir(prev, call.full) THEN call.status = "not_dir"
        ELSE /\ call.status = "ok"
             /\ {e.name : e \in Range(call.items)} = Names(prev, call.full)
             /\ Len(call.items) = Cardinality(Names(prev, call.full))
             /\ \A k \in 1..Len(call.items) :
                   /\ call.items[k].type = "folder"
                          <=> IsDir(prev, Append(call.full, call.items[k].name))
                   /\ call.items[k].size = <<>> <=> call.items[k].type = "folder"
             /\ \A j, k \in 1..Len(call.items) :
                   j < k =>
                       /\ call.items[k].type = "folder" => call.items[j].type = "folder"
                       /\ call.items[j].type = call.items[k].type =>
                              NameRank(lower(call.items[j].name))
                                  < NameRank(lower(call.items[k].name))

-----------------------------------------------------------------------------
(* Properties of the export *)

\* a step of the export keeps the order of service.py 142-147 and utils.py
\* 58-76
ExportStep ==
    /\ (/\ call'.op = "get_folder_zip_generator"
        /\ call'.rstatus = "ok"
        /\ ~IsDir(prev', call'.full))
          => /\ call'.status = "not_found"
             /\ gen'.pc \in {"none", "done"}
             /\ gen'.tmpdir = {}
    /\ (gen.pc = "new" /\ gen'.pc = "yielded")
          => /\ gen'.archive = ZipOf(fs, gen.folder)
             /\ gen'.tmp_name \in gen'.tmpdir
             /\ gen'.left \in 0..(MaxChunks - 1)
    /\ (gen.pc = "yielded" /\ gen'.pc = "yielded" /\ gen' # gen)
          => /\ gen'.archive = gen.archive
             /\ gen'.left < gen.left
    /\ (gen.pc = "yielded" /\ gen.left = 0 /\ gen' # gen) => gen'.pc = "done"

\* C23: get_folder_zip_generator answers a missing or non-directory path
\* with not found while no generator is handed out and no temporary file
\* exists; at the first chunk of an accepted directory the whole archive is
\* in the temporary file and nothing is written to it afterwards; every
\* chunk leaves fewer to come, and a generator that is iterated ends.
C23_ExportOrdering ==
    /\ [][ExportStep]_vars
    /\ (gen.pc \in {"new", "yielded"}) ~> (gen.pc = "done")

\* an accepted directory was streamed to its end in more than one chunk
C23_Witness ==
    /\ call.op = "get_folder_zip_generator"
    /\ call.status = "ok"
    /\ gen.end = "exhausted"
    /\ gen.archive # <<>>
    /\ gen.unlinks = 1

-----------------------------------------------------------------------------
(* Properties of the resolver on a host without symlinks *)

NoLinks(f) == \A q \in DOMAIN f : f[q].kind # "link"

\* C24: on a filesystem without symlinks and with a non-empty registry, a
\* relative input without a ".." segment is answered with firstRoot/input,
\* a path at or below the first root, whether or not it exists and whether
\* or not the same relative path exists under a later root.
C24_RelativeMeansFirstRoot ==
    (/\ call.rstatus \notin {"none", "no_roots"}
     /\ ~call.path.abs
     /\ ~HasDotDot(call.path)
     /\ NoLinks(prev))
        => /\ Resolved
           /\ call.full = allowed_roots[1].path \o DropDots(call.path.segs)
           /\ IsUnder(call.full, allowed_roots[1].path)

\* the first root /a is gone and the later root /ab holds the folder e:
\* "e" is answered with /a/e, which did not exist
C24_Witness ==
    /\ NoLinks(prev)
    /\ PathsOf(allowed_roots) = << <<"a">>, <<"ab">> >>
    /\ call.op = "create_folder"
    /\ call.path = Str(FALSE, <<"e">>)
    /\ ~Exists(prev, <<"a", "e">>)
    /\ IsDir(prev, <<"ab", "e">>)
    /\ call.full = <<"a", "e">>

-----------------------------------------------------------------------------
(* Properties of uploads and of the roots themselves *)

\* C25: an upload_file call that changes the filesystem creates one file
\* and changes nothing else, and the file is a direct child of the
\* directory its path argument resolved to, whatever the file name is; a
\* successful call does create it.
C25_UploadIsDirectChild ==
    call.op = "upload_file" =>
        /\ call.status = "ok" => fs # prev
        /\ fs # prev =>
              \E p \in DOMAIN fs \ DOMAIN prev :
                  /\ Changed = {p}
                  /\ fs[p].kind = "file"
                  /\ Parent(p) = call.full

\* C26: with a non-empty registry, delete_item("") on an existing first
\* root succeeds and removes the root with everything below it, and nothing
\* else; while the first root is missing every list_items("") fails with
\* not found; create_folder("") then succeeds and makes it a directory
\* again.
C26_RootsAreNotProtected ==
    \A i \in 1..Len(hist) :
        Len(allowed_roots) > 0 =>
            /\ (IsCall(i, "delete_item", NoStr) /\ Exists(hist[i].before, SeqRoot(i)))
                  => /\ hist[i].status = "ok"
                     /\ hist[i].after = Remove(hist[i].before, SeqRoot(i))
                     /\ \A q \in DOMAIN hist[i].after : ~IsUnder(q, SeqRoot(i))
            /\ (IsCall(i, "list_items", NoStr) /\ ~Exists(hist[i].before, SeqRoot(i)))
                  => hist[i].status = "not_found"
            /\ (IsCall(i, "create_folder", NoStr) /\ ~Exists(hist[i].before, SeqRoot(i)))
                  => /\ hist[i].status = "ok"
                     /\ IsDir(hist[i].after, SeqRoot(i))

\* the root was deleted, two listings failed, the second as the first
C26_Witness ==
    /\ Len(hist) = 3
    /\ IsCall(1, "delete_item", NoStr)
    /\ hist[1].status = "ok"
    /\ Subtree(hist[1].before, SeqRoot(1)) # {SeqRoot(1)}
    /\ IsCall(2, "list_items", NoStr)
    /\ IsCall(3, "list_items", NoStr)
    /\ hist[2].status = "not_found"
    /\ hist[3].status = "not_found"

-----------------------------------------------------------------------------
(* Properties of the registry's routes *)

\* no row of the table before call i has the id of the call
NoSuchRoot(i) ==
    \A k \in 1..Len(hist[i].before) : hist[i].before[k].id # hist[i].root_id

\* C27: with the database answering, modify_allowed_root with a non-empty
\* body and remove_allowed_root answer an id that matches no row with 404.
C27_MissingRootIs404 ==
    \A i \in 1..Len(hist) :
        /\ (/\ hist[i].op = "modify_allowed_root"
            /\ hist[i].fields # {}
            /\ hist[i].db_up
            /\ NoSuchRoot(i))
              => hist[i].status = 404
        /\ (/\ hist[i].op = "remove_allowed_root"
            /\ hist[i].db_up
            /\ NoSuchRoot(i))
              => hist[i].status = 404

-----------------------------------------------------------------------------
(* Properties of systemd.py *)

HasRow(name) == \E row \in svc.rows : row.name = name

\* C28: after every call, a unit file exists for a name exactly when the
\* table holds a row with that name, and a create_service that failed
\* otherwise than with 409 has left neither, so that it can be repeated.
C28_RegistryConsistent ==
    /\ \A name \in {"s1", "s2"} : name \in svc.units <=> HasRow(name)
    /\ (svc.last.op = "create_service" /\ svc.last.status \notin {201, 409})
          => (svc.last.name \notin svc.units /\ ~HasRow(svc.last.name))

-----------------------------------------------------------------------------
(* Properties of hardware_ws.py *)

\* the sockets served in the round that has just ended: members from its
\* start to its end whose peer is still there
Served ==
    {s \in ws.b.start \cap ws.clients : ws.peer[s] /\ ws.h[s] = "sleeping"}

\* C29: the broadcast task is never ended by an exception, whatever
\* connects or disconnects while it is suspended in a send, and at the end
\* of a round every socket that was connected throughout has received the
\* message of that round.
C29_BroadcastNeverStops ==
    /\ ws.b.pc # "RuntimeError"
    /\ (ws.b.pc = "sleep" /\ ws.b.start # {}) =>
           \A s \in Served : ws.got[s] = ws.round

\* C30: a socket is in clients[metric] only while its handler is between
\* accept and cleanup, it is removed at most once, a handler that returned
\* removed it itself or found it removed, and no handler's cleanup ends
\* with an exception.
C30_MembershipAndCleanup ==
    \A s \in Socks :
        /\ s \in ws.clients => ws.h[s] = "sleeping"
        /\ ws.h[s] = "new" => ws.removed[s] = 0
        /\ ws.removed[s] <= 1
        /\ ws.h[s] = "returned" => ws.removed[s] = 1
        /\ ws.h[s] # "KeyError"

====
